---------------------------- MODULE Spec2Model ----------------------------
(***************************************************************************)
(* A model of the GAEZ v5 caloric-yield pipeline: the path resolver        *)
(* (gaezv5_path), the raster loader (open_raster), the group aggregator    *)
(* (group_kcal_average), the two cross-group reducers (sum_groups_kcal,    *)
(* sum_groups_har_area) and the two run() loops that write the outputs.    *)
(*                                                                         *)
(* Strings are sequences of one-character strings, so that formatting a    *)
(* path really concatenates characters and startswith really compares      *)
(* prefixes.  A raster is a record [crs, val]: val maps the coordinate     *)
(* label of each cell to its value.  Rasters are one row of cells; the     *)
(* label of a cell is its x coordinate, the pixel size is 1.  A cell value *)
(* is NaN or an exact rational number: float rounding is not modelled.     *)
(***************************************************************************)
EXTENDS Integers, Sequences, FiniteSets, TLC

VARIABLES
    mode,      \* which entry point this behaviour exercises
    pc,        \* position of the entry point: "call", "loop" or "done"
    pargs,     \* gaezv5_path: the argument tuple of the call
    pret,      \* gaezv5_path: what the first and the repeated call returned
    store,     \* remote storage: path -> raster, a path outside it fails to open
    cal_map,   \* calorie_mapping: ordered sequence of [group, kcal]
    crop_map,  \* crop_mapping: group -> sequence of member crops (partial)
    req,       \* [water, yield_var, period, model, scenario] of an API call
    ret,       \* what the called function returned or raised, with its locals
    idx,       \* run(): index of the next request of the loop
    files,     \* run(): output files on disk, name -> raster
    logs       \* run(): the logging.exception records, in order

vars == <<mode, pc, pargs, pret, store, cal_map, crop_map, req, ret, idx, files, logs>>

-----------------------------------------------------------------------------
(* Bounds of the model *)

\* longest token drawn for the free tokens of the path resolver
MaxTokLen == 2
\* most member crops of one group
MaxMembers == 2
\* most crop groups of one calorie_mapping
MaxGroups == 2

-----------------------------------------------------------------------------
(* Strings *)

None == <<"N", "o", "n", "e">>

\* str.startswith(prefix)
StartsWith(s, p) == Len(s) >= Len(p) /\ SubSeq(s, 1, Len(p)) = p

\* str.startswith((p1, p2, ...))
StartsWithAny(s, ps) == \E p \in ps : StartsWith(s, p)

RES02 == <<"R", "E", "S", "0", "2">>
RES03 == <<"R", "E", "S", "0", "3">>
RES04 == <<"R", "E", "S", "0", "4">>
RES05 == <<"R", "E", "S", "0", "5">>
RES06 == <<"R", "E", "S", "0", "6">>

RES05_YCX == RES05 \o <<"-", "Y", "C", "X">>
RES03_YLD == RES03 \o <<"-", "Y", "L", "D">>
RES06_HAR == RES06 \o <<"-", "H", "A", "R">>
RES01_XXX == <<"R", "E", "S", "0", "1", "-", "X", "X", "X">>

Dot == <<".">>
Slash == <<"/">>
GAEZ_V5 == <<"G", "A", "E", "Z", "-", "V", "5">>
Tif == <<"t", "i", "f">>

BaseHttps ==
    <<"h", "t", "t", "p", "s", ":", "/", "/">>
    \o <<"s", "t", "o", "r", "a", "g", "e", ".">>
    \o <<"g", "o", "o", "g", "l", "e", "a", "p", "i", "s", ".", "c", "o", "m", "/">>
    \o <<"f", "a", "o", "-", "g", "i", "s", "m", "g", "r", "-">>
    \o <<"g", "a", "e", "z", "-", "v", "5", "-", "d", "a", "t", "a", "/">>
    \o <<"D", "A", "T", "A", "/">> \o GAEZ_V5 \o <<"/", "M", "A", "P", "S", "E", "T">>

BaseGs ==
    <<"g", "s", ":", "/", "/">>
    \o <<"f", "a", "o", "-", "g", "i", "s", "m", "g", "r", "-">>
    \o <<"g", "a", "e", "z", "-", "v", "5", "-", "d", "a", "t", "a", "/">>
    \o <<"D", "A", "T", "A", "/">> \o GAEZ_V5 \o <<"/", "M", "A", "P", "S", "E", "T">>

\* the dict of base URLs, keyed by scheme
Base == ("https" :> BaseHttps) @@ ("gs" :> BaseGs)

-----------------------------------------------------------------------------
(* Path Resolver *)

\* the f-string of the time/scenario-dependent families
FnameA(variable_code, period, climate_model, scenario, crop, water_code) ==
    GAEZ_V5 \o Dot \o variable_code \o Dot \o period \o Dot \o climate_model
    \o Dot \o scenario \o Dot \o crop \o Dot \o water_code \o Dot \o Tif

\* a mutant of FnameB: the crop token left out of the file name
FnameB_NoCrop(variable_code, crop, water_code) ==
    GAEZ_V5 \o Dot \o variable_code \o Dot \o water_code \o Dot \o Tif

\* the f-string of the static harvested-area-like families
FnameB(variable_code, crop, water_code) ==
    GAEZ_V5 \o Dot \o variable_code \o Dot \o crop \o Dot \o water_code \o Dot \o Tif

\* which branch of gaezv5_path a variable code takes: "A", "B" or "none"
SchemeOf(variable_code) ==
    IF StartsWithAny(variable_code, {RES02, RES03, RES04}) THEN "A"
    ELSE IF StartsWithAny(variable_code, {RES05, RES04}) THEN "A"
    ELSE IF StartsWithAny(variable_code, {RES06, RES05}) THEN "B"
    ELSE "none"

\* gaezv5_path: [ok |-> TRUE, path |-> ...], or ok = FALSE for the KeyError of
\* the base lookup, which comes first, and for the ValueError of the family test
gaezv5_path(variable_code, period, climate_model, scenario, crop, water_code, scheme) ==
    LET sch == SchemeOf(variable_code)
        fname == IF sch = "A"
                 THEN FnameA(variable_code, period, climate_model, scenario, crop, water_code)
                 ELSE FnameB(variable_code, crop, water_code)
    IN  IF scheme \notin DOMAIN Base
        THEN [ok |-> FALSE, err |-> "KeyError"]
        ELSE IF sch = "none"
        THEN [ok |-> FALSE, err |-> "ValueError"]
        ELSE [ok |-> TRUE, path |-> Base[scheme] \o Slash \o variable_code \o Slash \o fname]

\* gaezv5_path applied to an argument record
PathOf(a) ==
    gaezv5_path(a.variable_code, a.period, a.climate_model, a.scenario,
                a.crop, a.water_code, a.scheme)

-----------------------------------------------------------------------------
(* Cell values: NaN, or an exact rational <<numerator, denominator>> *)

NaN == <<>>

IsNaN(c) == c = NaN

RECURSIVE GCD(_, _)
GCD(a, b) == IF b = 0 THEN a ELSE GCD(b, a % b)

Abs(n) == IF n < 0 THEN -n ELSE n

\* the rational n/d in lowest terms (d > 0)
Rat(n, d) == LET g == GCD(Abs(n), d) IN <<n \div g, d \div g>>

Num(n) == <<n, 1>>

\* float multiplication: NaN if either operand is NaN
Mul(a, b) == IF IsNaN(a) \/ IsNaN(b) THEN NaN ELSE Rat(a[1] * b[1], a[2] * b[2])

\* float addition: NaN if either operand is NaN
Add(a, b) == IF IsNaN(a) \/ IsNaN(b) THEN NaN ELSE Rat(a[1] * b[2] + b[1] * a[2], a[2] * b[2])

\* float division by a positive count
DivInt(a, k) == IF IsNaN(a) THEN NaN ELSE Rat(a[1], a[2] * k)

-----------------------------------------------------------------------------
(* Rasters and grids *)

EPSG4326 == "EPSG:4326"
ESRI54009 == "ESRI:54009"

\* where the origin of a crs lies on the ground, in pixels: the two reference
\* systems of the model label the same ground position differently
CrsOffset(crs) == IF crs = EPSG4326 THEN 0 ELSE 1

\* a raster from its crs, the label of its first cell and its row of values
Ras(crs, x0, data) == [crs |-> crs, val |-> [x \in x0 .. (x0 + Len(data) - 1) |-> data[x - x0 + 1]]]

Labels(r) == DOMAIN r.val

MinOf(S) == CHOOSE x \in S : \A y \in S : x <= y

\* rio.crs, rio.transform() (the origin; the pixel size is 1 throughout) and shape
Grid(r) ==
    [crs |-> r.crs,
     transform |-> IF Labels(r) = {} THEN 0 ELSE MinOf(Labels(r)),
     shape |-> Cardinality(Labels(r))]

\* the test that guards every reproject_match of the pipeline
GridDiffers(a, ref) ==
    \/ Grid(a).crs # Grid(ref).crs
    \/ Grid(a).transform # Grid(ref).transform
    \/ Grid(a).shape # Grid(ref).shape

\* rio.reproject_match(ref): nearest-neighbour resampling onto the grid of ref,
\* nodata where the source does not cover the cell
reproject_match(src, ref) ==
    [crs |-> ref.crs,
     val |-> [x \in Labels(ref) |->
                LET w == x + CrsOffset(ref.crs) - CrsOffset(src.crs)
                IN  IF w \in Labels(src) THEN src.val[w] ELSE NaN]]

\* the value of a raster at a coordinate label after xarray's outer join
At(r, x) == IF x \in Labels(r) THEN r.val[x] ELSE NaN

\* the labels of xr.concat(layers, dim=...): the outer join of the layers' labels
ConcatLabels(layers) == UNION {Labels(layers[i]) : i \in 1 .. Len(layers)}

RECURSIVE SumCells(_, _, _)
\* the sum of the non-NaN values of the first k layers at label x
SumCells(layers, x, k) ==
    IF k = 0 THEN Num(0)
    ELSE IF IsNaN(At(layers[k], x)) THEN SumCells(layers, x, k - 1)
    ELSE Add(SumCells(layers, x, k - 1), At(layers[k], x))

\* how many layers are not NaN at label x
CountCells(layers, x) == Cardinality({i \in 1 .. Len(layers) : ~IsNaN(At(layers[i], x))})

\* a mutant of NanSum: NaN propagates (skipna=False)
NanSum_Propagate(layers, x) ==
    IF CountCells(layers, x) < Len(layers) THEN NaN ELSE SumCells(layers, x, Len(layers))

\* .sum(dim, skipna=True) at one cell: NaN counts as 0, an all-NaN cell sums to 0
NanSum(layers, x) == SumCells(layers, x, Len(layers))

\* .mean(dim, skipna=True) at one cell: the mean of the non-NaN values, NaN if none
NanMean(layers, x) ==
    IF CountCells(layers, x) = 0 THEN NaN
    ELSE DivInt(SumCells(layers, x, Len(layers)), CountCells(layers, x))

\* xr.concat(layers, dim).sum(dim, skipna=True)
ConcatSum(layers) ==
    [crs |-> layers[1].crs, val |-> [x \in ConcatLabels(layers) |-> NanSum(layers, x)]]

\* xr.concat(layers, dim).mean(dim, skipna=True)
ConcatMean(layers) ==
    [crs |-> layers[1].crs, val |-> [x \in ConcatLabels(layers) |-> NanMean(layers, x)]]

\* a * b of two rasters: xarray's inner join of the labels, cell by cell
RasMul(a, b) ==
    [crs |-> a.crs, val |-> [x \in Labels(a) \cap Labels(b) |-> Mul(a.val[x], b.val[x])]]

\* raster * scalar
RasScale(a, k) == [crs |-> a.crs, val |-> [x \in Labels(a) |-> Mul(a.val[x], k)]]

-----------------------------------------------------------------------------
(* Tokens of the pipeline *)

HILM == <<"H", "I", "L", "M">>
LILM == <<"L", "I", "L", "M">>
HRLM == <<"H", "R", "L", "M">>
LRLM == <<"L", "R", "L", "M">>
WSI == <<"W", "S", "I">>
WSR == <<"W", "S", "R">>

HP8100 == <<"H", "P", "8", "1", "0", "0">>
HP0120 == <<"H", "P", "0", "1", "2", "0">>
FP2140 == <<"F", "P", "2", "1", "4", "0">>
FP4160 == <<"F", "P", "4", "1", "6", "0">>
FP6180 == <<"F", "P", "6", "1", "8", "0">>
FP8100 == <<"F", "P", "8", "1", "0", "0">>
AGERA5 == <<"A", "G", "E", "R", "A", "5">>
ENSEMBLE == <<"E", "N", "S", "E", "M", "B", "L", "E">>
HIST == <<"H", "I", "S", "T">>
SSP126 == <<"S", "S", "P", "1", "2", "6">>
SSP370 == <<"S", "S", "P", "3", "7", "0">>
SSP585 == <<"S", "S", "P", "5", "8", "5">>

BAN == <<"B", "A", "N">>
BRL == <<"B", "R", "L">>
MZE == <<"M", "Z", "E">>
BANA == <<"B", "A", "N", "A">>
PLNT == <<"P", "L", "N", "T">>
BARL == <<"B", "A", "R", "L">>
MAIZ == <<"M", "A", "I", "Z">>
CSV == <<"C", "S", "V">>

-----------------------------------------------------------------------------
(* Raster Loader *)

Raise(e) == [ok |-> FALSE, err |-> e]

\* what ret and pret hold before the call returns
NoResult == Raise("pending")

\* a storage that holds nothing
NoStore == <<>>

\* open_raster: the raster stored under the path, or the exception of
\* rxr.open_rasterio when nothing readable is stored there
open_raster(st, url) ==
    IF url \in DOMAIN st THEN [ok |-> TRUE, val |-> st[url]] ELSE Raise("OpenError")

-----------------------------------------------------------------------------
(* Group Aggregator *)

\* a mutant of YR_WATER_TO_AREA: the low-input codes are left out
YR_WATER_TO_AREA_HighOnly == (HILM :> WSI) @@ (HRLM :> WSR)

\* the table local to group_kcal_average
YR_WATER_TO_AREA == (HILM :> WSI) @@ (LILM :> WSI) @@ (HRLM :> WSR) @@ (LRLM :> WSR)

\* the path of a group's harvested-area raster
AreaPath(group, area_water) ==
    gaezv5_path(RES06_HAR, None, None, None, group, area_water, "https")

\* the path of a member crop's yield raster
YieldPath(r, c) ==
    gaezv5_path(r.yield_var, r.period, r.model, r.scenario, c, r.water, "https")

\* the locals of group_kcal_average before the loop over the member crops
LoopStart(areaG) ==
    [areaG |-> areaG, ref |-> <<>>, layers |-> <<>>, aligns |-> 0, skipped |-> <<>>,
     err |-> "none"]

\* a mutant of SkipCrop: a member that fails to load enters the mean as zeros
SkipCrop_AsZeros(l, c) ==
    [l EXCEPT !.skipped = Append(@, c),
              !.layers = Append(@, [crs |-> l.areaG.crs,
                                    val |-> [x \in Labels(l.areaG) |-> Num(0)]])]

\* the except branch of the loop: warn and continue
SkipCrop(l, c) == [l EXCEPT !.skipped = Append(@, c)]

\* the conditional reproject_match of the harvested-area raster
AlignArea(areaG, ref) ==
    IF GridDiffers(areaG, ref) THEN reproject_match(areaG, ref) ELSE areaG

\* the body of the loop after a successful open_raster
TakeCrop(l, yld) ==
    IF l.ref = <<>>
    THEN [l EXCEPT !.ref = <<yld>>,
                   !.areaG = AlignArea(l.areaG, yld),
                   !.aligns = @ + 1,
                   !.layers = Append(@, yld)]
    ELSE [l EXCEPT !.layers = Append(@, yld)]

\* the loop body once open_raster returned or raised
AfterYieldOpen(l, c, yld) == IF ~yld.ok THEN SkipCrop(l, c) ELSE TakeCrop(l, yld.val)

\* one iteration of the loop "for c in crops"; a ValueError of gaezv5_path is
\* outside the try and ends the call
LoopBody(st, l, c, y_path) ==
    IF ~y_path.ok THEN [l EXCEPT !.err = y_path.err]
    ELSE AfterYieldOpen(l, c, open_raster(st, y_path.path))

RECURSIVE LoopCrops(_, _, _, _, _)
\* the loop "for c in crops" from its i-th iteration on
LoopCrops(st, r, crops, i, l) ==
    IF i > Len(crops) \/ l.err # "none" THEN l
    ELSE LoopCrops(st, r, crops, i + 1, LoopBody(st, l, crops[i], YieldPath(r, crops[i])))

\* what group_kcal_average returns once the loop is over
GroupResult(l, kcal_per_kg) ==
    IF l.layers = <<>>
    THEN RasScale(l.areaG, Num(0))
    ELSE RasScale(RasMul(ConcatMean(l.layers), l.areaG), kcal_per_kg)

\* the return of group_kcal_average with the locals at the return: area_raw is
\* the harvested-area raster as loaded, areaG the one that entered the product
GroupReturn(l, area_raw, kcal_per_kg) ==
    IF l.err # "none" THEN Raise(l.err)
    ELSE [ok |-> TRUE, val |-> GroupResult(l, kcal_per_kg), area_raw |-> area_raw,
          areaG |-> l.areaG, ref |-> l.ref, layers |-> l.layers, aligns |-> l.aligns,
          skipped |-> l.skipped]

\* group_kcal_average from the load of the harvested area on: a failed load
\* raises, and so does iterating over None
AfterAreaOpen(st, crops, kcal_per_kg, r, area) ==
    IF ~area.ok THEN Raise(area.err)
    ELSE IF crops = <<>> THEN Raise("TypeError")
    ELSE GroupReturn(LoopCrops(st, r, crops[1], 1, LoopStart(area.val)), area.val, kcal_per_kg)

\* group_kcal_average.  crops is <<>> for None and <<list>> for a list.
group_kcal_average(st, group, crops, kcal_per_kg, r) ==
    IF r.water \notin DOMAIN YR_WATER_TO_AREA THEN Raise("KeyError")
    ELSE AfterAreaOpen(st, crops, kcal_per_kg, r,
                       open_raster(st, AreaPath(group, YR_WATER_TO_AREA[r.water]).path))

-----------------------------------------------------------------------------
(* Cross-Group Reducer, calorie pipeline *)

\* dict.get(key): <<>> for None, <<value>> for a value
Get(m, k) == IF k \in DOMAIN m THEN <<m[k]>> ELSE <<>>

\* a mutant of KcalAppend: a group whose call raised is skipped
KcalAppend_Skip(loop, group, layer) ==
    IF ~layer.ok THEN loop ELSE [loop EXCEPT !.calls = Append(@, layer)]

\* group_layers.append(layer), unless the call raised
KcalAppend(loop, group, layer) ==
    IF ~layer.ok THEN [ok |-> FALSE, err |-> layer.err, calls |-> loop.calls]
    ELSE [loop EXCEPT !.calls = Append(@, layer)]

RECURSIVE KcalLoop(_, _, _, _, _, _)
\* the loop "for group_crop, kcal in calorie_mapping.items()" from its i-th
\* iteration on; calls collects what group_kcal_average returned, and the loop
\* ends at the first call that raises
KcalLoop(st, crop_mapping, calorie_mapping, r, i, loop) ==
    IF i > Len(calorie_mapping) \/ ~loop.ok THEN loop
    ELSE KcalLoop(st, crop_mapping, calorie_mapping, r, i + 1,
                  KcalAppend(loop, calorie_mapping[i].group,
                             group_kcal_average(st, calorie_mapping[i].group,
                                                Get(crop_mapping, calorie_mapping[i].group),
                                                calorie_mapping[i].kcal, r)))

Us == <<"_">>

\* f"cal_yld_{variable_code_yield}_{period}_{climate_model}_{scenario}_{water_code}"
KcalName(r) ==
    <<"c", "a", "l", "_", "y", "l", "d", "_">> \o r.yield_var \o Us \o r.period
    \o Us \o r.model \o Us \o r.scenario \o Us \o r.water

\* the rasters of the calls, in order: group_layers
LayersOf(calls) == [i \in 1 .. Len(calls) |-> calls[i].val]

\* the end of sum_groups_kcal: xr.concat raises on an empty list
KcalReturn(loop, r) ==
    IF ~loop.ok THEN Raise(loop.err)
    ELSE IF loop.calls = <<>> THEN Raise("ValueError")
    ELSE [ok |-> TRUE, val |-> ConcatSum(LayersOf(loop.calls)), name |-> KcalName(r),
          group_layers |-> LayersOf(loop.calls), calls |-> loop.calls]

\* sum_groups_kcal: the total, with the group layers that entered it
sum_groups_kcal(st, crop_mapping, calorie_mapping, r) ==
    KcalReturn(KcalLoop(st, crop_mapping, calorie_mapping, r, 1,
                        [ok |-> TRUE, err |-> "none", calls |-> <<>>]), r)

-----------------------------------------------------------------------------
(* Cross-Group Reducer, harvested-area pipeline *)

\* the module-level table of get_har_area.py
HAR_YR_WATER_TO_AREA == (HILM :> WSI) @@ (HRLM :> WSR)

\* the body of the loop of sum_groups_har_area after a successful open_raster
HarTake(l, areaG) ==
    IF l.ref = <<>>
    THEN [l EXCEPT !.ref = <<areaG>>, !.layers = Append(@, areaG)]
    ELSE [l EXCEPT !.layers =
            Append(@, IF GridDiffers(areaG, l.ref[1])
                      THEN reproject_match(areaG, l.ref[1]) ELSE areaG)]

\* the except branch of the loop of sum_groups_har_area: warn and continue
HarSkip(l, group) == [l EXCEPT !.skipped = Append(@, group)]

\* the loop body once open_raster returned or raised; loaded keeps the rasters
\* as open_raster returned them
AfterHarOpen(l, group, areaG) ==
    IF ~areaG.ok THEN HarSkip(l, group)
    ELSE HarTake([l EXCEPT !.loaded = Append(@, areaG.val)], areaG.val)

RECURSIVE HarLoop(_, _, _, _, _)
\* the loop "for group in groups" from its i-th iteration on
HarLoop(st, groups, area_water, i, l) ==
    IF i > Len(groups) THEN l
    ELSE HarLoop(st, groups, area_water, i + 1,
                 AfterHarOpen(l, groups[i],
                              open_raster(st, AreaPath(groups[i], area_water).path)))

\* f"har_area_{water_code}"
HarName(water_code) == <<"h", "a", "r", "_", "a", "r", "e", "a", "_">> \o water_code

\* a mutant of HarReturn: no loaded group gives an empty total, not an error
HarReturn_NoRaise(l, water_code) ==
    [ok |-> TRUE, val |-> [crs |-> EPSG4326, val |-> <<>>], name |-> HarName(water_code),
     layers |-> l.layers, ref |-> l.ref, skipped |-> l.skipped, loaded |-> l.loaded]

\* the end of sum_groups_har_area: no loaded group is an error
HarReturn(l, water_code) ==
    IF l.layers = <<>> THEN Raise("ValueError")
    ELSE [ok |-> TRUE, val |-> ConcatSum(l.layers), name |-> HarName(water_code),
          layers |-> l.layers, ref |-> l.ref, skipped |-> l.skipped, loaded |-> l.loaded]

\* sum_groups_har_area: the total, with the layers that entered it
sum_groups_har_area(st, groups, water_code) ==
    IF water_code \notin DOMAIN HAR_YR_WATER_TO_AREA THEN Raise("KeyError")
    ELSE HarReturn(HarLoop(st, groups, HAR_YR_WATER_TO_AREA[water_code], 1,
                           [ref |-> <<>>, layers |-> <<>>, skipped |-> <<>>,
                            loaded |-> <<>>]),
                   water_code)

-----------------------------------------------------------------------------
(* The run() loops *)

OVERWRITE == FALSE

YIELD_VARS == <<RES05_YCX>>
KCAL_WATERS == <<HILM, HRLM>>
HAR_WATERS == <<HILM, HRLM>>
HIST_PERIODS == <<HP8100, HP0120>>
FUTURE_PERIODS == <<FP2140, FP4160, FP6180, FP8100>>
HIST_MODELS == <<AGERA5>>
FUTURE_MODELS == <<ENSEMBLE>>

\* SCENARIOS, in the order of the dict
SCENARIOS ==
    << [scen |-> HIST,   periods |-> HIST_PERIODS,   models |-> HIST_MODELS],
       [scen |-> SSP126, periods |-> FUTURE_PERIODS, models |-> FUTURE_MODELS],
       [scen |-> SSP370, periods |-> FUTURE_PERIODS, models |-> FUTURE_MODELS],
       [scen |-> SSP585, periods |-> FUTURE_PERIODS, models |-> FUTURE_MODELS] >>

RECURSIVE Flatten(_)
\* the concatenation of a sequence of sequences
Flatten(ss) == IF ss = <<>> THEN <<>> ELSE Head(ss) \o Flatten(Tail(ss))

\* valid_combos(): the (period, model, scenario) triples in generation order
valid_combos ==
    Flatten([s \in 1 .. Len(SCENARIOS) |->
        Flatten([p \in 1 .. Len(SCENARIOS[s].periods) |->
            [m \in 1 .. Len(SCENARIOS[s].models) |->
                [period |-> SCENARIOS[s].periods[p],
                 model |-> SCENARIOS[s].models[m],
                 scenario |-> SCENARIOS[s].scen]]])])

\* the requests of get_data.run() in loop order
KcalRequests ==
    Flatten([v \in 1 .. Len(YIELD_VARS) |->
        Flatten([c \in 1 .. Len(valid_combos) |->
            [w \in 1 .. Len(KCAL_WATERS) |->
                [water |-> KCAL_WATERS[w], yield_var |-> YIELD_VARS[v],
                 period |-> valid_combos[c].period, model |-> valid_combos[c].model,
                 scenario |-> valid_combos[c].scenario]]])])

\* list(cal_map_t6.keys())
Keys(calorie_mapping) == [i \in 1 .. Len(calorie_mapping) |-> calorie_mapping[i].group]

\* the file system after to_raster(out_path)
Written(fs, name, da) == (name :> da) @@ fs

\* what a loop iteration of run() leaves: the files and the log
Outcome(fs, lg, kind, fname, err) ==
    [files |-> fs, logs |-> Append(lg, [kind |-> kind, fname |-> fname, err |-> err])]

\* the try block of get_data.run(): write the raster under its name, or log
\* the exception
KcalTry(fs, lg, fname, da) ==
    IF da.ok THEN Outcome(Written(fs, da.name, da.val), lg, "saved", fname, "none")
    ELSE Outcome(fs, lg, "failed", fname, da.err)

\* one iteration of the loop of get_data.run(): the request is skipped when
\* its file exists, else built and written, or its failure is logged
RunKcalIteration(fs, lg, st, crop_mapping, calorie_mapping, r) ==
    IF KcalName(r) \in DOMAIN fs /\ ~OVERWRITE
    THEN Outcome(fs, lg, "exists", KcalName(r), "none")
    ELSE KcalTry(fs, lg, KcalName(r), sum_groups_kcal(st, crop_mapping, calorie_mapping, r))

\* the try block of get_har_area.run()
HarTry(fs, lg, fname, da) ==
    IF da.ok THEN Outcome(Written(fs, fname, da.val), lg, "saved", fname, "none")
    ELSE Outcome(fs, lg, "failed", fname, da.err)

\* one iteration of the loop of get_har_area.run()
RunHarIteration(fs, lg, st, groups, water) ==
    IF HarName(water) \in DOMAIN fs /\ ~OVERWRITE
    THEN Outcome(fs, lg, "exists", HarName(water), "none")
    ELSE HarTry(fs, lg, HarName(water), sum_groups_har_area(st, groups, water))

-----------------------------------------------------------------------------
(* The path resolver called twice on one argument tuple *)

Chars == {"A", "."}

\* the strings over Chars of length 1 .. n
Tok(n) == UNION {[1 .. k -> Chars] : k \in 1 .. n}

\* the tokens drawn for period, climate_model and scenario
ShortTok == {<<"A">>, <<"B">>}

SchemeAVars == {RES05_YCX, RES03_YLD}
SchemeBVars == {RES06_HAR}

\* calls of a time/scenario-dependent family
PathArgsA ==
    [variable_code : SchemeAVars, period : ShortTok, climate_model : ShortTok,
     scenario : ShortTok, crop : Tok(MaxTokLen), water_code : Tok(MaxTokLen),
     scheme : {"https"}]

\* calls of a static family, as the pipeline makes them, and of no family,
\* under the two schemes of the base dict and one it does not hold
PathArgsB ==
    [variable_code : SchemeBVars \cup {RES01_XXX}, period : {None}, climate_model : {None},
     scenario : {None}, crop : Tok(MaxTokLen), water_code : Tok(MaxTokLen),
     scheme : {"https", "gs", "ftp"}]

InitPath ==
    /\ mode = "path"
    /\ pc = "call"
    /\ pargs \in PathArgsA \cup PathArgsB
    /\ pret = [first |-> NoResult, again |-> NoResult]
    /\ store = NoStore
    /\ cal_map = <<>>
    /\ crop_map = <<>>
    /\ req = [water |-> HILM, yield_var |-> RES05_YCX, period |-> HP0120,
              model |-> AGERA5, scenario |-> HIST]
    /\ ret = NoResult
    /\ idx = 1
    /\ files = <<>>
    /\ logs = <<>>

\* the first call of gaezv5_path
ResolvePath ==
    /\ mode = "path" /\ pc = "call"
    /\ pret' = [pret EXCEPT !.first = PathOf(pargs)]
    /\ pc' = "again"
    /\ UNCHANGED <<mode, pargs, store, cal_map, crop_map, req, ret, idx, files, logs>>

\* the same call repeated
ResolveAgain ==
    /\ mode = "path" /\ pc = "again"
    /\ pret' = [pret EXCEPT !.again = PathOf(pargs)]
    /\ pc' = "done"
    /\ UNCHANGED <<mode, pargs, store, cal_map, crop_map, req, ret, idx, files, logs>>

NextPath == ResolvePath \/ ResolveAgain

SpecPath == InitPath /\ [][NextPath]_vars

-----------------------------------------------------------------------------
(* The inputs of the pipeline *)

\* the stand-in, while the storage is drawn, for a path that fails to open
Missing == [crs |-> "missing", val |-> <<>>]

\* harvested-area rasters: three on the common grid, one shifted by a pixel,
\* one in another crs, one a pixel shorter
AreaRasters ==
    {Ras(EPSG4326, 0, d) : d \in {<<Num(100), Num(100)>>, <<NaN, Num(100)>>, <<NaN, Num(50)>>}}
    \cup {Ras(EPSG4326, 1, <<Num(100), Num(50)>>),
          Ras(ESRI54009, 0, <<Num(100), Num(50)>>),
          Ras(EPSG4326, 0, <<Num(100)>>)}

\* yield rasters: five on the common grid and three off it
YieldRasters ==
    {Ras(EPSG4326, 0, d) :
        d \in {<<Num(2), Num(2)>>, <<Num(4), Num(2)>>, <<NaN, Num(4)>>,
               <<Num(2), NaN>>, <<NaN, NaN>>}}
    \cup {Ras(EPSG4326, 1, <<Num(2), Num(4)>>),
          Ras(ESRI54009, 0, <<Num(4), Num(2)>>),
          Ras(EPSG4326, 0, <<Num(4)>>)}

\* the smaller choice of rasters for requests of several groups
SumAreaRasters ==
    {Ras(EPSG4326, 0, <<Num(100), Num(100)>>), Ras(EPSG4326, 0, <<NaN, Num(100)>>),
     Ras(EPSG4326, 1, <<Num(100), Num(50)>>)}

SumYieldRasters ==
    {Ras(EPSG4326, 0, <<Num(2), Num(2)>>), Ras(EPSG4326, 0, <<NaN, Num(4)>>),
     Ras(EPSG4326, 1, <<Num(2), Num(4)>>)}

\* the storage that holds picks[i] under paths[i], nothing where picks[i] is Missing
MkStore(paths, picks) ==
    LET held == {i \in 1 .. Len(paths) : picks[i] # Missing}
    IN  [p \in {paths[i] : i \in held} |-> picks[CHOOSE i \in held : paths[i] = p]]

Waters == {HILM, LILM, HRLM, LRLM}

\* the storage keeps the harvested area of the irrigated codes under WSI and
\* of the rainfed codes under WSR
StoredRegime(w) == IF w \in {HILM, LILM} THEN WSI ELSE WSR

\* 39.4 kcal/kg and the same scaled by ten on load
KcalFactors == {Rat(197, 5), Num(394)}

\* the group and member codes the inputs are drawn from, with their factors
GroupPool ==
    << [group |-> BAN, kcal |-> Num(394), crops |-> <<BANA, PLNT, MAIZ, CSV>>],
       [group |-> BRL, kcal |-> Num(391), crops |-> <<BARL>>],
       [group |-> MZE, kcal |-> Num(365), crops |-> <<MAIZ>>],
       [group |-> CSV, kcal |-> Num(160), crops |-> <<CSV>>] >>

Least(a, b) == IF a <= b THEN a ELSE b

DefaultReq ==
    [water |-> HILM, yield_var |-> RES05_YCX, period |-> HP0120, model |-> AGERA5,
     scenario |-> HIST]

\* the variables the pipeline does not use
IdlePath ==
    /\ pargs = [variable_code |-> RES06_HAR, period |-> None, climate_model |-> None,
                scenario |-> None, crop |-> BAN, water_code |-> WSI, scheme |-> "https"]
    /\ pret = [first |-> NoResult, again |-> NoResult]

\* one call of group_kcal_average: group BAN with up to MaxMembers members (or
\* None for the member list), each raster present or failing to open
InitGroup ==
    /\ mode = "group" /\ pc = "call"
    /\ IdlePath
    /\ \E n \in 0 .. Least(MaxMembers, Len(GroupPool[1].crops)), w \in Waters,
          k \in KcalFactors, a \in AreaRasters \cup {Missing}, none \in BOOLEAN :
          \E ys \in [1 .. n -> YieldRasters \cup {Missing}] :
             LET crops == SubSeq(GroupPool[1].crops, 1, n)
                 r == [DefaultReq EXCEPT !.water = w]
             IN  /\ none => n = 0
                 /\ req = r
                 /\ cal_map = <<[group |-> BAN, kcal |-> k]>>
                 /\ crop_map = IF none THEN <<>> ELSE (BAN :> crops)
                 /\ store = MkStore(
                       <<AreaPath(BAN, StoredRegime(w)).path>>
                           \o [i \in 1 .. n |-> YieldPath(r, crops[i]).path],
                       <<a>> \o ys)
    /\ ret = NoResult /\ idx = 1 /\ files = <<>> /\ logs = <<>>

\* the member list of group i in a request of several groups: the group is
\* absent from crop_mapping, has no member, or has its first member
MemberKinds == {"absent", "empty", "one"}

\* one call of sum_groups_kcal over up to MaxGroups groups
InitSum ==
    /\ mode = "sum" /\ pc = "call"
    /\ IdlePath
    /\ \E n \in 0 .. Least(MaxGroups, Len(GroupPool)) :
          \E as \in [1 .. n -> SumAreaRasters \cup {Missing}],
             ks \in [1 .. n -> MemberKinds],
             ys \in [1 .. n -> SumYieldRasters \cup {Missing}] :
             /\ \A i \in 1 .. n : ks[i] # "one" => ys[i] = Missing
             /\ req = DefaultReq
             /\ cal_map = [i \in 1 .. n |-> [group |-> GroupPool[i].group,
                                             kcal |-> GroupPool[i].kcal]]
             /\ crop_map = [g \in {GroupPool[i].group : i \in {j \in 1 .. n : ks[j] # "absent"}} |->
                              LET i == CHOOSE j \in 1 .. n : GroupPool[j].group = g
                              IN  IF ks[i] = "empty" THEN <<>>
                                  ELSE <<GroupPool[i].crops[1]>>]
             /\ store = MkStore(
                   [i \in 1 .. n |-> AreaPath(GroupPool[i].group, WSI).path]
                       \o [i \in 1 .. n |-> YieldPath(DefaultReq, GroupPool[i].crops[1]).path],
                   as \o ys)
    /\ ret = NoResult /\ idx = 1 /\ files = <<>> /\ logs = <<>>

\* one call of sum_groups_har_area over up to MaxGroups groups
InitHar ==
    /\ mode = "har" /\ pc = "call"
    /\ IdlePath
    /\ \E n \in 0 .. Least(MaxGroups, Len(GroupPool)), w \in Waters :
          \E as \in [1 .. n -> AreaRasters \cup {Missing}] :
             /\ req = [DefaultReq EXCEPT !.water = w]
             /\ cal_map = [i \in 1 .. n |-> [group |-> GroupPool[i].group,
                                             kcal |-> GroupPool[i].kcal]]
             /\ crop_map = <<>>
             /\ store = MkStore(
                   [i \in 1 .. n |-> AreaPath(GroupPool[i].group, StoredRegime(w)).path],
                   as)
    /\ ret = NoResult /\ idx = 1 /\ files = <<>> /\ logs = <<>>

\* the mappings of the run() loops: BAN with two members, BRL with one
RunCalMap == [i \in 1 .. 2 |-> [group |-> GroupPool[i].group, kcal |-> GroupPool[i].kcal]]
RunCropMap == (BAN :> <<BANA, PLNT>>) @@ (BRL :> <<BARL>>)

\* every harvested-area path the run() loops open
RunAreaPaths == {AreaPath(g, w).path : g \in {BAN, BRL}, w \in {WSI, WSR}}

\* every yield path get_data.run() opens
RunYieldPaths ==
    {YieldPath(KcalRequests[i], c).path : i \in 1 .. Len(KcalRequests), c \in {BANA, PLNT, BARL}}

\* the yield paths that may be absent when get_data.run() starts
RunYieldOutages ==
    {{}, {YieldPath(KcalRequests[1], PLNT).path}, {YieldPath(KcalRequests[4], BARL).path}}

\* a file left by an earlier run
OldFile == Ras(EPSG4326, 0, <<Num(1), Num(1)>>)

\* get_data.run() from its start: any set of the harvested-area rasters is
\* absent, one yield raster may be, one output file may exist already
InitRunKcal ==
    /\ mode = "run_kcal" /\ pc = "loop"
    /\ IdlePath
    /\ req = DefaultReq /\ cal_map = RunCalMap /\ crop_map = RunCropMap
    /\ \E am \in SUBSET RunAreaPaths, ym \in RunYieldOutages :
          store = [p \in (RunAreaPaths \ am) \cup (RunYieldPaths \ ym) |->
                      IF p \in RunAreaPaths THEN Ras(EPSG4326, 0, <<Num(100), Num(100)>>)
                      ELSE Ras(EPSG4326, 0, <<Num(2), Num(2)>>)]
    /\ files \in {<<>>, (KcalName(KcalRequests[2]) :> OldFile)}
    /\ ret = NoResult /\ idx = 1 /\ logs = <<>>

\* get_har_area.run() from its start
InitRunHar ==
    /\ mode = "run_har" /\ pc = "loop"
    /\ IdlePath
    /\ req = DefaultReq /\ cal_map = RunCalMap /\ crop_map = <<>>
    /\ \E am \in SUBSET RunAreaPaths :
          store = [p \in RunAreaPaths \ am |-> Ras(EPSG4326, 0, <<Num(100), Num(100)>>)]
    /\ files \in {<<>>, (HarName(HAR_WATERS[2]) :> OldFile)}
    /\ ret = NoResult /\ idx = 1 /\ logs = <<>>

Init == InitGroup \/ InitSum \/ InitHar \/ InitRunKcal \/ InitRunHar

-----------------------------------------------------------------------------
(* The entry points *)

\* group_kcal_average called for the one group of the request
CallGroupKcalAverage ==
    /\ mode = "group" /\ pc = "call"
    /\ ret' = group_kcal_average(store, cal_map[1].group, Get(crop_map, cal_map[1].group),
                                 cal_map[1].kcal, req)
    /\ pc' = "done"
    /\ UNCHANGED <<mode, pargs, pret, store, cal_map, crop_map, req, idx, files, logs>>

\* sum_groups_kcal called for the request
CallSumGroupsKcal ==
    /\ mode = "sum" /\ pc = "call"
    /\ ret' = sum_groups_kcal(store, crop_map, cal_map, req)
    /\ pc' = "done"
    /\ UNCHANGED <<mode, pargs, pret, store, cal_map, crop_map, req, idx, files, logs>>

\* sum_groups_har_area called for the groups and the water code of the request
CallSumGroupsHarArea ==
    /\ mode = "har" /\ pc = "call"
    /\ ret' = sum_groups_har_area(store, Keys(cal_map), req.water)
    /\ pc' = "done"
    /\ UNCHANGED <<mode, pargs, pret, store, cal_map, crop_map, req, idx, files, logs>>

\* one iteration of the request loop of get_data.run()
RunKcalStep ==
    /\ mode = "run_kcal" /\ pc = "loop"
    /\ LET out == RunKcalIteration(files, logs, store, crop_map, cal_map, KcalRequests[idx])
       IN  files' = out.files /\ logs' = out.logs
    /\ idx' = idx + 1
    /\ pc' = IF idx = Len(KcalRequests) THEN "done" ELSE "loop"
    /\ UNCHANGED <<mode, pargs, pret, store, cal_map, crop_map, req, ret>>

\* one iteration of the water loop of get_har_area.run()
RunHarStep ==
    /\ mode = "run_har" /\ pc = "loop"
    /\ LET out == RunHarIteration(files, logs, store, Keys(cal_map), HAR_WATERS[idx])
       IN  files' = out.files /\ logs' = out.logs
    /\ idx' = idx + 1
    /\ pc' = IF idx = Len(HAR_WATERS) THEN "done" ELSE "loop"
    /\ UNCHANGED <<mode, pargs, pret, store, cal_map, crop_map, req, ret>>

Next ==
    \/ CallGroupKcalAverage
    \/ CallSumGroupsKcal
    \/ CallSumGroupsHarArea
    \/ RunKcalStep
    \/ RunHarStep

Spec == Init /\ [][Next]_vars

-----------------------------------------------------------------------------
(* What the claims read off a finished call *)

GroupDone == mode = "group" /\ pc = "done"
SumDone == mode = "sum" /\ pc = "done"
HarDone == mode = "har" /\ pc = "done"

\* the storage holds the harvested area of group g for water code w
AreaStored(g, w) == AreaPath(g, StoredRegime(w)).path \in DOMAIN store

\* the storage holds the yield of crop c for the request
YieldStored(c) == YieldPath(req, c).path \in DOMAIN store

\* the member list of the one group of a group_kcal_average call
TheGroup == cal_map[1].group
HasMemberList == TheGroup \in DOMAIN crop_map
Members == crop_map[TheGroup]

\* the positions of the members whose yield raster is stored
LoadedAt == {i \in 1 .. Len(Members) : YieldStored(Members[i])}

\* the stored yield raster of member i
YieldOf(i) == store[YieldPath(req, Members[i]).path]

ZeroCell == <<0, 1>>

-----------------------------------------------------------------------------
(* C1: the zero-member fallback *)

\* C1 as stated: when the harvested-area raster loads and no member yield
\* loads (or the member list is empty), group_kcal_average returns a raster
\* with the cells of the harvested-area raster, 0 at every one of them, the
\* nodata cells included.
C1_FallbackAllZero ==
    (GroupDone /\ AreaStored(TheGroup, req.water) /\ HasMemberList /\ LoadedAt = {}) =>
        /\ ret.ok
        /\ Labels(ret.val) = Labels(store[AreaPath(TheGroup, StoredRegime(req.water)).path])
        /\ \A x \in Labels(ret.val) : ret.val.val[x] = ZeroCell

-----------------------------------------------------------------------------
(* C2, C3: the cross-group sum *)

\* the group-level rasters a finished reducer summed
SummedLayers == IF mode = "sum" THEN ret.group_layers ELSE ret.layers

\* a reducer returned a total
SumReturned == (SumDone \/ HarDone) /\ ret.ok

\* the summed rasters are on one grid
OneGrid(layers) == \A i \in 1 .. Len(layers) : Grid(layers[i]) = Grid(layers[1])

\* C2 as stated: a cell that is NaN in the raster of every group is NaN in the
\* cross-group sum, for calories and for area.
C2_AllNaNStaysNaN ==
    (SumReturned /\ OneGrid(SummedLayers)) =>
        \A x \in Labels(ret.val) :
            (\A i \in 1 .. Len(SummedLayers) : IsNaN(At(SummedLayers[i], x)))
                => IsNaN(ret.val.val[x])

RECURSIVE PresentTotal(_)
\* the exact sum of the numbers of a sequence of cell values, NaN taken as 0
PresentTotal(cells) ==
    IF cells = <<>> THEN ZeroCell
    ELSE LET rest == PresentTotal(Tail(cells))
             c == Head(cells)
         IN  IF c = NaN THEN rest
             ELSE Rat(c[1] * rest[2] + rest[1] * c[2], c[2] * rest[2])

\* C3: at every cell that is not NaN in at least one group, the cross-group
\* sum of rasters on one grid is the sum of exactly the non-NaN group values:
\* it is a number, and NaN contributions count as 0.
C3_SumOfPresent ==
    (SumReturned /\ OneGrid(SummedLayers)) =>
        /\ Labels(ret.val) = Labels(SummedLayers[1])
        /\ \A x \in Labels(ret.val) :
              (\E i \in 1 .. Len(SummedLayers) : ~IsNaN(At(SummedLayers[i], x))) =>
                  /\ ~IsNaN(ret.val.val[x])
                  /\ ret.val.val[x] =
                        PresentTotal([i \in 1 .. Len(SummedLayers) |-> At(SummedLayers[i], x)])

\* the scenario of the spec: {100, 100} and {NaN, 50} sum to {100, 150}
C3_Witness ==
    /\ HarDone /\ ret.ok
    /\ ret.layers = <<Ras(EPSG4326, 0, <<Num(100), Num(100)>>),
                      Ras(EPSG4326, 0, <<NaN, Num(50)>>)>>
    /\ ret.val.val = [x \in {0, 1} |-> IF x = 0 THEN Num(100) ELSE Num(150)]

-----------------------------------------------------------------------------
(* C4: the mean over the loaded members *)

\* the first member, in input order, whose yield raster is stored
FirstLoaded == MinOf(LoadedAt)

\* the stored harvested-area raster of the one group
StoredArea == store[AreaPath(TheGroup, StoredRegime(req.water)).path]

\* the harvested area at cell x of the result: the stored value when the area
\* raster is on the grid of the first loaded member, else the resampled one
AreaAtCell(x) ==
    IF Grid(StoredArea) = Grid(YieldOf(FirstLoaded)) THEN StoredArea.val[x]
    ELSE ret.areaG.val[x]

\* the yield of member i at the cell labelled x: NaN when its load failed
MemberAtCell(i, x) == IF i \in LoadedAt THEN At(YieldOf(i), x) ELSE NaN

\* C4: when the harvested area loads and at least one member loads, whatever
\* members fail, group_kcal_average returns at every cell
\* mean(non-NaN yields of the loaded members) * area * kcal_per_kg: with
\* count present yields of total T, area a and factor k the result r satisfies
\* r * count = T * a * k, and r is NaN when no yield is present or a is NaN.
C4_MeanOfLoaded ==
    (GroupDone /\ AreaStored(TheGroup, req.water) /\ HasMemberList /\ LoadedAt # {}) =>
        /\ ret.ok
        /\ Labels(ret.val) = Labels(YieldOf(FirstLoaded))
        /\ \A x \in Labels(ret.val) :
              LET count == Cardinality({i \in LoadedAt : ~IsNaN(MemberAtCell(i, x))})
                  T == PresentTotal([i \in 1 .. Len(Members) |-> MemberAtCell(i, x)])
                  a == AreaAtCell(x)
                  k == cal_map[1].kcal
                  r == ret.val.val[x]
              IN  IF count = 0 \/ IsNaN(a) THEN IsNaN(r)
                  ELSE /\ ~IsNaN(r)
                       /\ r[1] * count * T[2] * a[2] * k[2] = r[2] * T[1] * a[1] * k[1]

\* the scenario of the spec: members [BANA, PLNT], PLNT missing, BANA = 2.0,
\* area = 100, factor 39.4, result 7880 at every cell
C4_Witness ==
    /\ GroupDone /\ ret.ok
    /\ Members = <<BANA, PLNT>>
    /\ YieldStored(BANA) /\ ~YieldStored(PLNT)
    /\ YieldOf(1) = Ras(EPSG4326, 0, <<Num(2), Num(2)>>)
    /\ StoredArea = Ras(EPSG4326, 0, <<Num(100), Num(100)>>)
    /\ cal_map[1].kcal = Rat(197, 5)
    /\ ret.val.val = [x \in {0, 1} |-> Num(7880)]

-----------------------------------------------------------------------------
(* C5: a failed harvested-area load in the calorie pipeline *)

\* the finished call raised exception e
Raised(e) == ~ret.ok /\ ret.err = e

\* the harvested area of some group of the request fails to load
RequestAreaFails(r) ==
    \E i \in 1 .. Len(cal_map) : ~AreaStored(cal_map[i].group, r.water)

\* C5: when the harvested-area load of a group fails, group_kcal_average
\* raises the load error, sum_groups_kcal raises and returns no partial sum,
\* and get_data.run() logs the error for that request, writes no file for it
\* and goes through every remaining request.
C5_AreaFailureIsFatal ==
    /\ (GroupDone /\ ~AreaStored(TheGroup, req.water)) => Raised("OpenError")
    /\ (SumDone /\ RequestAreaFails(req)) => ~ret.ok
    /\ mode = "run_kcal" =>
          /\ Len(logs) = idx - 1
          /\ (pc = "done") = (idx = Len(KcalRequests) + 1)
          /\ \A i \in 1 .. (idx - 1) :
                RequestAreaFails(KcalRequests[i]) =>
                    /\ logs[i].fname = KcalName(KcalRequests[i])
                    /\ logs[i].kind \in {"failed", "exists"}
                    /\ logs[i].kind = "failed" =>
                          /\ logs[i].err = "OpenError"
                          /\ logs[i].fname \notin DOMAIN files
                    /\ logs[i].kind = "exists" => files[logs[i].fname] = OldFile

\* get_data.run() ended after a request failed on a harvested-area load and a
\* later request was saved
C5_Witness ==
    /\ mode = "run_kcal" /\ pc = "done"
    /\ \E i, j \in 1 .. Len(logs) :
          /\ i < j
          /\ RequestAreaFails(KcalRequests[i])
          /\ logs[i].kind = "failed"
          /\ logs[j].kind = "saved"
          /\ logs[j].fname \in DOMAIN files

-----------------------------------------------------------------------------
(* C6: failed harvested-area loads in the harvested-area pipeline *)

\* the positions of the groups whose harvested area is stored for water code w
HarLoadable(w) == {i \in 1 .. Len(cal_map) : AreaStored(cal_map[i].group, w)}

Range(f) == {f[i] : i \in DOMAIN f}

\* C6: for a water code of its table sum_groups_har_area skips every group
\* whose load fails and returns the sum of the others, raises ValueError when
\* no group loads, and get_har_area.run() then logs the error, writes no file
\* for that water code and goes on to the next one.
C6_HarSkipsOrRaises ==
    /\ (HarDone /\ req.water \in {HILM, HRLM}) =>
          IF HarLoadable(req.water) = {} THEN Raised("ValueError")
          ELSE /\ ret.ok
               /\ Len(ret.skipped) = Len(cal_map) - Cardinality(HarLoadable(req.water))
               /\ Range(ret.skipped) =
                     {cal_map[i].group : i \in (1 .. Len(cal_map)) \ HarLoadable(req.water)}
               /\ Len(ret.layers) = Cardinality(HarLoadable(req.water))
               /\ Range(ret.loaded) =
                     {store[AreaPath(cal_map[i].group, StoredRegime(req.water)).path] :
                         i \in HarLoadable(req.water)}
               /\ \A x \in Labels(ret.val) :
                     ret.val.val[x] =
                        PresentTotal([i \in 1 .. Len(ret.layers) |-> At(ret.layers[i], x)])
    /\ mode = "run_har" =>
          /\ Len(logs) = idx - 1
          /\ (pc = "done") = (idx = Len(HAR_WATERS) + 1)
          /\ \A i \in 1 .. (idx - 1) :
                HarLoadable(HAR_WATERS[i]) = {} =>
                    /\ logs[i].fname = HarName(HAR_WATERS[i])
                    /\ logs[i].kind \in {"failed", "exists"}
                    /\ logs[i].kind = "failed" =>
                          /\ logs[i].err = "ValueError"
                          /\ logs[i].fname \notin DOMAIN files
                    /\ logs[i].kind = "exists" => files[logs[i].fname] = OldFile

\* get_har_area.run() ended: no group loaded for HILM, which was logged and
\* left no file, and HRLM was saved from one group with the other skipped
C6_Witness ==
    /\ mode = "run_har" /\ pc = "done"
    /\ HarLoadable(HILM) = {}
    /\ Cardinality(HarLoadable(HRLM)) = 1
    /\ logs[1].kind = "failed" /\ logs[2].kind = "saved"
    /\ DOMAIN files = {HarName(HRLM)}

-----------------------------------------------------------------------------
(* C7: the water code tables *)

\* C7 as stated: both functions resolve each of the four codes without a
\* lookup failure and open the rasters of the regime the code stands for.
C7_TotalEverywhere ==
    /\ GroupDone =>
          /\ ~Raised("KeyError")
          /\ (AreaStored(TheGroup, req.water) /\ HasMemberList) => ret.ok
    /\ HarDone =>
          /\ ~Raised("KeyError")
          /\ HarLoadable(req.water) # {} => ret.ok

\* C7 amended: group_kcal_average resolves HILM, LILM, HRLM, LRLM to WSI, WSI,
\* WSR, WSR without a lookup failure; sum_groups_har_area resolves HILM to WSI
\* and HRLM to WSR and raises KeyError for LILM and LRLM.
C7_TotalInGroupKcalAverage ==
    /\ GroupDone =>
          /\ ~Raised("KeyError")
          /\ (AreaStored(TheGroup, req.water) /\ HasMemberList) => ret.ok
    /\ (HarDone /\ req.water \in {HILM, HRLM}) =>
          /\ ~Raised("KeyError")
          /\ HarLoadable(req.water) # {} => ret.ok
    /\ (HarDone /\ req.water \in {LILM, LRLM}) => Raised("KeyError")

\* sum_groups_har_area was called with LILM while the irrigated area of a
\* group is stored, and raised KeyError
C7_Witness ==
    /\ HarDone /\ req.water = LILM
    /\ HarLoadable(LILM) # {}
    /\ Raised("KeyError")

-----------------------------------------------------------------------------
(* C9: the reference grid of a group *)

\* C9 as stated: when a member loads, the reference is the first loaded
\* member, the harvested area was aligned to it once, and the harvested area
\* and every loaded member yield entering the product are on its grid.
C9_AllOnReferenceGrid ==
    (GroupDone /\ AreaStored(TheGroup, req.water) /\ HasMemberList /\ LoadedAt # {}) =>
        /\ ret.ok
        /\ ret.ref = <<YieldOf(FirstLoaded)>>
        /\ ret.aligns = 1
        /\ Grid(ret.areaG) = Grid(ret.ref[1])
        /\ \A i \in 1 .. Len(ret.layers) : Grid(ret.layers[i]) = Grid(ret.ref[1])

-----------------------------------------------------------------------------
(* C10: the grids of the group-level rasters of one request *)

\* C10 as stated: every layer sum_groups_kcal hands to the sum has the grid
\* of every other layer, and every layer sum_groups_har_area appends has the
\* grid of the first loaded group.
C10_CommonGrid ==
    /\ (SumDone /\ ret.ok) =>
          \A i, j \in 1 .. Len(ret.group_layers) :
              Grid(ret.group_layers[i]) = Grid(ret.group_layers[j])
    /\ (HarDone /\ ret.ok) =>
          \A i \in 1 .. Len(ret.layers) : Grid(ret.layers[i]) = Grid(ret.loaded[1])

-----------------------------------------------------------------------------
(* C8: determinism and injectivity of the path resolver *)

DotFree(t) == \A i \in 1 .. Len(t) : t[i] # "."

\* no token of the call holds the separator of the file name
ArgsDotFree(a) ==
    /\ DotFree(a.period) /\ DotFree(a.climate_model) /\ DotFree(a.scenario)
    /\ DotFree(a.crop) /\ DotFree(a.water_code)

\* the two calls give the same input tuple of their naming scheme
SameTuple(a, b) ==
    /\ a.variable_code = b.variable_code
    /\ a.crop = b.crop
    /\ a.water_code = b.water_code
    /\ SchemeOf(a.variable_code) = "A" =>
          /\ a.period = b.period
          /\ a.climate_model = b.climate_model
          /\ a.scenario = b.scenario

\* the calls of the naming scheme of call a
SameSchemeCalls(a) ==
    IF SchemeOf(a.variable_code) = "A" THEN PathArgsA
    ELSE {b \in PathArgsB : SchemeOf(b.variable_code) = "B" /\ b.scheme = a.scheme}

\* C8 as stated: the repeated call returns the identifier of the first call,
\* and no call with a different input tuple of the same naming scheme returns
\* that identifier, whatever the token strings are.
C8_InjectiveAllTokens ==
    (mode = "path" /\ pc = "done") =>
        /\ pret.again = pret.first
        /\ pret.first.ok =>
              \A b \in SameSchemeCalls(pargs) :
                  ~SameTuple(pargs, b) => PathOf(b).path # pret.first.path

\* C8 amended: the repeated call returns the identifier of the first call, and
\* among calls whose tokens hold no "." no call with a different input tuple
\* of the same naming scheme returns that identifier.
C8_InjectiveDotFree ==
    (mode = "path" /\ pc = "done") =>
        /\ pret.again = pret.first
        /\ (pret.first.ok /\ ArgsDotFree(pargs)) =>
              \A b \in SameSchemeCalls(pargs) :
                  (ArgsDotFree(b) /\ ~SameTuple(pargs, b)) =>
                      PathOf(b).path # pret.first.path

\* both calls returned for a dot-free tuple of the five-token scheme that has a
\* dot-free neighbour differing in the crop token only
C8_Witness ==
    /\ mode = "path" /\ pc = "done"
    /\ pret.first.ok /\ pret.again.ok
    /\ SchemeOf(pargs.variable_code) = "A"
    /\ ArgsDotFree(pargs)
    /\ Len(pargs.crop) = MaxTokLen
    /\ \E b \in SameSchemeCalls(pargs) :
          ArgsDotFree(b) /\ b.crop # pargs.crop /\ b.water_code = pargs.water_code

-----------------------------------------------------------------------------
(* C11: one layer per group of calorie_mapping *)

\* the member list of group g, a group without an entry in crop_mapping
\* counting as a group of zero members
MembersOrNone(g) == IF g \in DOMAIN crop_map THEN crop_map[g] ELSE <<>>

\* the layer group_kcal_average gives for group i of calorie_mapping when it
\* is handed the member list MembersOrNone
LayerOfGroup(i) ==
    group_kcal_average(store, cal_map[i].group, <<MembersOrNone(cal_map[i].group)>>,
                       cal_map[i].kcal, req)

\* every group of calorie_mapping has its harvested area stored
AllAreasStored == \A i \in 1 .. Len(cal_map) : AreaStored(cal_map[i].group, req.water)

\* C11 as stated: when the harvested area of every group loads,
\* sum_groups_kcal does not abort, contributes exactly one layer per group of
\* calorie_mapping in mapping order and returns their sum; a group without an
\* entry in crop_mapping contributes the layer of a group with zero members.
C11_OneLayerPerGroup ==
    (SumDone /\ Len(cal_map) > 0 /\ AllAreasStored) =>
        /\ ret.ok
        /\ Len(ret.group_layers) = Len(cal_map)
        /\ \A i \in 1 .. Len(cal_map) :
              /\ LayerOfGroup(i).ok
              /\ ret.group_layers[i] = LayerOfGroup(i).val
        /\ ret.val = ConcatSum(ret.group_layers)

\* the same restricted to requests whose groups all have an entry in
\* crop_mapping: there the code does as C11 says
C11_WhenEveryGroupMapped ==
    (SumDone /\ Len(cal_map) > 0 /\ AllAreasStored
        /\ \A i \in 1 .. Len(cal_map) : cal_map[i].group \in DOMAIN crop_map) =>
        /\ ret.ok
        /\ Len(ret.group_layers) = Len(cal_map)
        /\ \A i \in 1 .. Len(cal_map) :
              /\ LayerOfGroup(i).ok
              /\ ret.group_layers[i] = LayerOfGroup(i).val
        /\ ret.val = ConcatSum(ret.group_layers)

\* with a group absent from crop_mapping and every area stored the call
\* raises TypeError
C11_AbsentGroupAborts ==
    (SumDone /\ AllAreasStored
        /\ \E i \in 1 .. Len(cal_map) : cal_map[i].group \notin DOMAIN crop_map) =>
        Raised("TypeError")

=============================================================================
